---- MODULE Spec2Model ----
(***************************************************************************)
(* Session/authentication subsystem and cached posts proxy of the backend. *)
(*                                                                         *)
(* Strings that the code inspects character by character (emails,          *)
(* passwords, post titles, search terms) are tuples of one-character       *)
(* strings.  Instants are integers (seconds).                              *)
(***************************************************************************)
EXTENDS Integers, Sequences, FiniteSets, TLC

\* ------------------------------------------------------------------ bounds
MaxUsers == 2
MaxTime == 2
MaxIssued == 1
SESSION_TIME == 1
CACHE_EXPIRE == 2
MaxPage == 3
MaxPerPage == 2

\* ------------------------------------------------------- character strings
UpperOf == [a |-> "A", b |-> "B", x |-> "X", i |-> "I", o |-> "O", p |-> "P"]
LowerLetters == DOMAIN UpperOf
UpperLetters == {UpperOf[c] : c \in LowerLetters}
Letters == LowerLetters \cup UpperLetters
Digits == {"0", "1", "2"}
Whitespace == {" "}

\* str.lower() on one character
LowerOf == [A |-> "a", B |-> "b", X |-> "x", I |-> "i", O |-> "o", P |-> "p"]
LowerChar(c) == IF c \in DOMAIN LowerOf THEN LowerOf[c] ELSE c

\* str.lower()
Lower(s) == [k \in 1..Len(s) |-> LowerChar(s[k])]

\* str.strip()
RECURSIVE StripLeft(_)
StripLeft(s) ==
    IF s # <<>> /\ Head(s) \in Whitespace THEN StripLeft(Tail(s)) ELSE s

RECURSIVE StripRight(_)
StripRight(s) ==
    IF s # <<>> /\ s[Len(s)] \in Whitespace
    THEN StripRight(SubSeq(s, 1, Len(s) - 1))
    ELSE s

Strip(s) == StripRight(StripLeft(s))

\* formatting.format_string: trim, then lower-case
format_string(s) == Lower(Strip(s))

AllIn(s, lo, hi, cs) == \A k \in lo..hi : s[k] \in cs

\* r'^[a-zA-Z0-9._%+-]+@[a-zA-Z0-9.-]+\.[a-zA-Z]{2,}$'
EmailLocalChars == Letters \cup Digits \cup {".", "_", "%", "+", "-"}
EmailDomainChars == Letters \cup Digits \cup {".", "-"}

_is_valid_email(email) ==
    \E at \in 2..Len(email) :
        /\ email[at] = "@"
        /\ AllIn(email, 1, at - 1, EmailLocalChars)
        /\ \E dot \in (at + 2)..(Len(email) - 2) :
            /\ email[dot] = "."
            /\ AllIn(email, at + 1, dot - 1, EmailDomainChars)
            /\ AllIn(email, dot + 1, Len(email), Letters)

SpecialChars == {"!", "@", "#", "$", "%", "^", "&", "*", "(", ")", ",", ".", "?", ":", "{", "}", "|", "<", ">"}

HasChar(s, cs) == \E k \in 1..Len(s) : s[k] \in cs

_is_valid_password(password) ==
    IF Len(password) < 8
    THEN FALSE
    ELSE /\ HasChar(password, UpperLetters)
         /\ HasChar(password, LowerLetters)
         /\ HasChar(password, Digits)
         /\ HasChar(password, SpecialChars)

\* ------------------------------------------------------------ input values
EmailA == <<"a", "@", "x", ".", "i", "o">>
EmailAUpper == <<"A", "@", "x", ".", "i", "o">>
EmailB == <<"b", "@", "x", ".", "i", "o">>
EmailShortTld == <<"p", "@", "x", ".", "i">>
EmailBlank == <<" ">>
Empty == <<>>

PwGood == <<"A", "b", "1", "!", "x", "x", "x", "x">>
PwOther == <<"B", "a", "2", "?", "o", "o", "o", "o">>
PwWeak == <<"a", "b", "1", "x", "x", "x", "x", "x">>

NameOk == <<"a", "b">>
NameShort == <<" ", "a", " ">>


\* ------------------------------------------------------------------ values
USER == "USER"
ADMIN == "ADMIN"

UUIDs == 1..MaxUsers
GhostUUID == MaxUsers + 1
None == -1

\* bcrypt_hashing.hash / bcrypt_hashing.validate
Hash(password) == <<"bcrypt", password>>
Validate(password, digest) == digest = Hash(password)

\* str(uuid) and UUID(str); UUID() accepts more than the canonical form
UuidStr(id) == [form |-> "canonical", hex |-> id]
UuidForms == {"canonical", "braces"}
IsStr(v) == DOMAIN v = {"form", "hex"}
UuidParses(s) == s.form \in UuidForms
UuidOf(s) == s.hex

\* jwt.encode(claims, exp): the signed string; jwt.decode(str): claims or None
NoClaims == [none |-> TRUE]
JwtEncode(claims, exp) ==
    [kind |-> "jwt", sig |-> "server",
     payload |-> [user_id |-> claims.user_id, role |-> claims.role, exp |-> exp]]
JwtDecode(s) ==
    IF s.kind = "jwt" /\ s.sig = "server" THEN s.payload ELSE NoClaims

\* cookies a request can carry besides the tokens issued by login
NoCookie == [kind |-> "absent"]
GarbageCookie == [kind |-> "garbage"]
ForgedToken ==
    [kind |-> "jwt", sig |-> "other",
     payload |-> [user_id |-> UuidStr(1), role |-> ADMIN, exp |-> MaxTime + SESSION_TIME]]
GhostToken == JwtEncode([user_id |-> UuidStr(GhostUUID), role |-> USER], MaxTime + SESSION_TIME)
BadUuidToken ==
    JwtEncode([user_id |-> [form |-> "text", hex |-> 1], role |-> USER], MaxTime + SESSION_TIME)
IntUuidToken == JwtEncode([user_id |-> [int |-> 1], role |-> USER], MaxTime + SESSION_TIME)
NoExpToken == JwtEncode([user_id |-> UuidStr(1), role |-> USER], None)
ForeignCookies ==
    {NoCookie, GarbageCookie, ForgedToken, GhostToken, BadUuidToken,
     IntUuidToken, NoExpToken}

\* effects on the response's cookie
CookieUntouched == [op |-> "none"]
CookieDeleted == [op |-> "delete"]
SetCookie(value, expires) ==
    [op |-> "set", value |-> value, expires |-> expires,
     httponly |-> TRUE, secure |-> TRUE, samesite |-> "strict"]

NoBody == [none |-> TRUE]

\* a response's message is its literal text followed by the texts interpolated into it
NoDetail == <<>>
Ok(status, body, cookie) ==
    [ok |-> TRUE, status |-> status, message |-> "", detail |-> NoDetail, body |-> body,
     cookie |-> cookie]
AppException(message, status, cookie) ==
    [ok |-> FALSE, status |-> status, message |-> message, detail |-> NoDetail, body |-> NoBody,
     cookie |-> cookie]

\* str(e): the text of exception e
Str(e) == <<e.message>> \o e.detail

\* ------------------------------------------------------------------- state
VARIABLES
    users,      \* user directory: id -> record
    now,        \* the clock
    issued,     \* token strings returned by login so far
    pend,       \* per request slot: the request suspended between two steps
    last,       \* the request completed most recently and its response
    api,        \* what the external posts source currently serves
    cache,      \* the cache backend's entry under "<prefix>:all"
    ppend,      \* per posts request slot: the call suspended on the external fetch
    plast,      \* the posts call completed most recently
    memo        \* the get_posts call completed most recently, and whether the cache
                \* was left alone since

vars == <<users, now, issued, pend, last, api, cache, ppend, plast, memo>>

Slots == {1, 2}
Idle == [op |-> "idle"]

\* ---------------------------------------------------------- user directory
\* user_repo.get_by_email
repo_get_by_email(dir, email) ==
    IF \E id \in DOMAIN dir : dir[id].email = email
    THEN {dir[id] : id \in {i \in DOMAIN dir : dir[i].email = email}}
    ELSE {}

\* user_service.get_by_email: the set holding the record, or {} for None
get_by_email(dir, email) ==
    IF email = Empty
    THEN {}
    ELSE LET email_formatted == format_string(email)
         IN  IF ~_is_valid_email(email_formatted)
             THEN {}
             ELSE repo_get_by_email(dir, email_formatted)

\* -------------------------------------------------------------- auth gate
Truthy(v) == v # None /\ v # 0

\* the expiry comparison with its operands swapped
token_expired_swapped(token_dict, t) == Truthy(token_dict.exp) /\ t < token_dict.exp

\* exp_time and datetime.fromtimestamp(exp_time) < datetime.now()
token_expired(token_dict, t) == Truthy(token_dict.exp) /\ token_dict.exp < t

get_token(cookie, t) ==
    IF cookie = NoCookie
    THEN AppException("No session token", 401, CookieUntouched)
    ELSE LET token_dict == JwtDecode(cookie)
         IN  IF token_dict = NoClaims
             THEN AppException("Invalid session token", 401, CookieDeleted)
             ELSE IF IsStr(token_dict.user_id) /\ ~UuidParses(token_dict.user_id)
             THEN AppException("Invalid session", 401, CookieDeleted)
             ELSE IF token_expired(token_dict, t)
             THEN AppException("Session expired", 401, CookieDeleted)
             ELSE IF ~IsStr(token_dict.user_id)
             THEN AppException("Invalid session", 401, CookieDeleted)
             ELSE Ok(200, [user_id |-> UuidOf(token_dict.user_id), role |-> token_dict.role],
                     CookieUntouched)

\* get_user trusting the token: the active flag of the record is not looked at
get_user_no_active_check(cookie, t, dir, dbOk) ==
    LET token == get_token(cookie, t)
    IN  IF ~token.ok
        THEN token
        ELSE IF ~dbOk
        THEN AppException("Authentication failed", 401, CookieUntouched)
        ELSE IF token.body.user_id \notin DOMAIN dir
        THEN AppException("User not found", 404, CookieUntouched)
        ELSE Ok(200, dir[token.body.user_id], CookieUntouched)

get_user(cookie, t, dir, dbOk) ==
    LET token == get_token(cookie, t)
    IN  IF ~token.ok
        THEN token
        ELSE IF ~dbOk
        THEN AppException("Authentication failed", 401, CookieUntouched)
        ELSE IF token.body.user_id \notin DOMAIN dir
        THEN AppException("User not found", 404, CookieUntouched)
        ELSE IF ~dir[token.body.user_id].is_active
        THEN AppException("Account deactivated", 401, CookieDeleted)
        ELSE Ok(200, dir[token.body.user_id], CookieUntouched)

\* get_admin letting every authenticated user through
get_admin_any_role(user) == user

get_admin(user) ==
    IF ~user.ok
    THEN user
    ELSE IF user.body.role # ADMIN
    THEN AppException("Forbidden. Not an admin user", 403, user.cookie)
    ELSE user

\* ---------------------------------------------------------- session manager
\* token issuance that signs the role of an ordinary user whatever the record says
issue_session_default_role(user_db, t) ==
    LET exp_date == t + SESSION_TIME
        token_str == JwtEncode([user_id |-> UuidStr(user_db.id), role |-> USER], exp_date)
    IN  Ok(200, token_str, SetCookie(token_str, exp_date))

\* token issuance that sets a cookie without httponly and without an expiry of its own
issue_session_session_cookie(user_db, t) ==
    LET exp_date == t + SESSION_TIME
        token_str == JwtEncode([user_id |-> UuidStr(user_db.id), role |-> user_db.role], exp_date)
    IN  Ok(200, token_str, [SetCookie(token_str, None) EXCEPT !.httponly = FALSE])

\* login steps 7 and 8: sign the claims and set the cookie
issue_session(user_db, t) ==
    LET exp_date == t + SESSION_TIME
        token_str == JwtEncode([user_id |-> UuidStr(user_db.id), role |-> user_db.role], exp_date)
    IN  Ok(200, token_str, SetCookie(token_str, exp_date))

\* a login that verifies the password before it looks at the account's status
login_password_first(obj, dir, t, dbOk) ==
    IF obj.email = Empty \/ obj.password = Empty
    THEN AppException("Email and password are required", 400, CookieUntouched)
    ELSE LET email_formatted == format_string(obj.email)
         IN  IF email_formatted = Empty
             THEN AppException("Invalid email format", 400, CookieUntouched)
             ELSE IF ~dbOk /\ _is_valid_email(email_formatted)
             THEN AppException("Database error occurred", 500, CookieUntouched)
             ELSE LET found == get_by_email(dir, email_formatted)
                  IN  IF found = {}
                      THEN AppException("Login failed. Please try again.", 500, CookieUntouched)
                      ELSE LET user_db == CHOOSE u \in found : TRUE
                           IN  IF ~Validate(obj.password, user_db.hash_password)
                               THEN AppException("Invalid credentials", 401, CookieUntouched)
                               ELSE IF ~user_db.is_active
                               THEN AppException("Email not verified. Please check your inbox.",
                                                 403, CookieUntouched)
                               ELSE issue_session(user_db, t)

\* session.login
login(obj, dir, t, dbOk) ==
    IF obj.email = Empty \/ obj.password = Empty
    THEN AppException("Email and password are required", 400, CookieUntouched)
    ELSE LET email_formatted == format_string(obj.email)
         IN  IF email_formatted = Empty
             THEN AppException("Invalid email format", 400, CookieUntouched)
             ELSE IF ~dbOk /\ _is_valid_email(email_formatted)
             THEN AppException("Database error occurred", 500, CookieUntouched)
             ELSE LET found == get_by_email(dir, email_formatted)
                  IN  IF found = {}
                      THEN \* _simulate_password_check: asyncio is not imported
                           AppException("Login failed. Please try again.", 500, CookieUntouched)
                      ELSE LET user_db == CHOOSE u \in found : TRUE
                           IN  IF ~user_db.is_active
                               THEN AppException("Email not verified. Please check your inbox.",
                                                 403, CookieUntouched)
                               ELSE IF ~Validate(obj.password, user_db.hash_password)
                               THEN AppException("Invalid credentials", 401, CookieUntouched)
                               ELSE issue_session(user_db, t)

\* a logout that answers without touching the cookie
logout_keeps_cookie == Ok(204, NoBody, CookieUntouched)

\* res.delete_cookie(CONFIG.COOKIES_KEY_NAME): no input is read, nothing can raise
logout == Ok(204, NoBody, CookieDeleted)

\* ------------------------------------------------------------ registration
\* a record built with the column default of is_active
NewUser_column_defaults(id, obj, role) ==
    [id |-> id,
     username |-> format_string(obj.username),
     role |-> role,
     email |-> format_string(obj.email),
     is_active |-> FALSE,
     hash_password |-> Hash(obj.password)]

\* user_service._create
NewUser(id, obj, role) ==
    [id |-> id,
     username |-> format_string(obj.username),
     role |-> role,
     email |-> format_string(obj.email),
     is_active |-> TRUE,
     hash_password |-> Hash(obj.password)]

\* uuid.uuid4(): a fresh id; ids are only ever compared for equality
uuid4(dir) == CHOOSE id \in UUIDs \ DOMAIN dir : \A other \in UUIDs \ DOMAIN dir : id <= other

\* user_repo.add: the unique constraint on email decides
EmailTaken(dir, email) == \E id \in DOMAIN dir : dir[id].email = email

Insert(dir, user) == [id \in DOMAIN dir \cup {user.id} |-> IF id = user.id THEN user ELSE dir[id]]

\* create_user up to and including the existence pre-check
create_user_check(obj, dir, dbOk) ==
    LET email_formatted == format_string(obj.email)
        name_formatted == format_string(obj.username)
    IN  IF email_formatted = Empty \/ ~_is_valid_email(email_formatted)
        THEN AppException("Email is not valid", 422, CookieUntouched)
        ELSE IF name_formatted = Empty \/ Len(name_formatted) < 2
        THEN AppException("Name must be at least 2 characters", 422, CookieUntouched)
        ELSE IF ~_is_valid_password(obj.password)
        THEN AppException("Password must be at least 8 characters with uppercase, lowercase, number, and special character",
                          422, CookieUntouched)
        ELSE IF ~dbOk
        THEN AppException("Database error occurred", 500, CookieUntouched)
        ELSE IF repo_get_by_email(dir, email_formatted) # {}
        THEN AppException("Email already exists", 422, CookieUntouched)
        ELSE Ok(201, NoBody, CookieUntouched)

Done(req, resp) == last' = [op |-> req.op, resp |-> resp]

\* an insert into a table that has no unique constraint on email
repo_add_no_constraint(dir, user, addOk) ==
    IF ~addOk
    THEN [dir |-> dir, resp |-> AppException("Database error occurred", 500, CookieUntouched)]
    ELSE [dir |-> Insert(dir, user), resp |-> Ok(201, user, CookieUntouched)]

\* user_repo.add: the database fails (addOk false), the unique constraint refuses, or the
\* row is inserted
repo_add(dir, user, addOk) ==
    IF ~addOk
    THEN [dir |-> dir, resp |-> AppException("Database error occurred", 500, CookieUntouched)]
    ELSE IF EmailTaken(dir, user.email)
    THEN [dir |-> dir, resp |-> AppException("Email already exists", 422, CookieUntouched)]
    ELSE [dir |-> Insert(dir, user), resp |-> Ok(201, user, CookieUntouched)]

\* f"Account creation failed. Please try again later.{str(e)}", status_code=500
AccountCreationFailed(e) ==
    [AppException("Account creation failed. Please try again later.", 500, CookieUntouched)
        EXCEPT !.detail = Str(e)]

\* _create and user_repo.add as called by create_user: any exception is re-raised as a 500
create_user_insert(obj, dir, addOk) ==
    LET added == repo_add(dir, NewUser(uuid4(dir), obj, USER), addOk)
    IN  IF added.resp.ok
        THEN added
        ELSE [dir |-> dir, resp |-> AccountCreationFailed(added.resp)]

\* POST /auth/register
Register(obj, dbOk, addOk) ==
    /\ LET req == [op |-> "register"]
           checked == create_user_check(obj, users, dbOk)
           created == create_user_insert(obj, users, addOk)
       IN  IF checked.ok
           THEN /\ UUIDs \ DOMAIN users # {}
                /\ users' = created.dir
                /\ Done(req, created.resp)
           ELSE /\ Done(req, checked)
                /\ UNCHANGED users
    /\ UNCHANGED <<now, issued, pend, api, cache, ppend, plast, memo>>

\* POST /auth/register up to the end of the existence pre-check; other requests may run
\* before the insert
RegisterCheck(s, obj, dbOk) ==
    /\ pend[s] = Idle
    /\ LET req == [op |-> "register", obj |-> obj]
           checked == create_user_check(obj, users, dbOk)
       IN  IF checked.ok
           THEN /\ pend' = [pend EXCEPT ![s] = req]
                /\ UNCHANGED last
           ELSE /\ Done(req, checked)
                /\ UNCHANGED pend
    /\ UNCHANGED <<users, now, issued, api, cache, ppend, plast, memo>>

\* POST /auth/register from the insert on, against the directory as it is by then
RegisterInsert(s, addOk) ==
    /\ pend[s].op = "register"
    /\ UUIDs \ DOMAIN users # {}
    /\ LET created == create_user_insert(pend[s].obj, users, addOk)
       IN  /\ users' = created.dir
           /\ Done(pend[s], created.resp)
    /\ pend' = [pend EXCEPT ![s] = Idle]
    /\ UNCHANGED <<now, issued, api, cache, ppend, plast, memo>>

\* user_service.create_admin (seeding; no pre-check, no wrapping)
CreateAdmin(obj) ==
    /\ UUIDs \ DOMAIN users # {}
    /\ LET req == [op |-> "create_admin", obj |-> obj]
           user == NewUser(uuid4(users), obj, ADMIN)
       IN  IF EmailTaken(users, user.email)
           THEN /\ Done(req, AppException("Email already exists", 422, CookieUntouched))
                /\ UNCHANGED users
           ELSE /\ users' = Insert(users, user)
                /\ Done(req, Ok(200, user, CookieUntouched))
    /\ UNCHANGED <<now, issued, pend, api, cache, ppend, plast, memo>>

\* ------------------------------------------------------------------ session
\* dto.UserLoginDTO: email is an EmailStr (local part, "@", dotted domain), password has
\* at least six characters; a body that fails never reaches the handler
EmailStr(email) ==
    \E at \in 2..Len(email) - 3 :
        /\ email[at] = "@"
        /\ \A k \in 1..Len(email) : (email[k] = "@" => k = at) /\ email[k] \notin Whitespace
        /\ \E dot \in at + 2..Len(email) - 1 : email[dot] = "."
UserLoginDTO(obj) == EmailStr(obj.email) /\ Len(obj.password) >= 6

\* auth_controller.login: `except Exception` around session.login catches whatever it
\* raises, AppException included, and raises the same 500 in its place
login_route(obj, dir, t, dbOk) ==
    LET resp == login(obj, dir, t, dbOk)
    IN  IF resp.ok
        THEN resp
        ELSE AppException("Login failed. Please try again.", 500, CookieUntouched)

\* session.login called with obj
Login(obj, dbOk) ==
    LET resp == login(obj, users, now, dbOk)
    IN  /\ resp.ok => (resp.body \in issued \/ Cardinality(issued) < MaxIssued)
        /\ issued' = IF resp.ok THEN issued \cup {resp.body} ELSE issued
        /\ Done([op |-> "login", obj |-> obj, dbOk |-> dbOk], resp)
        /\ UNCHANGED <<users, now, pend, api, cache, ppend, plast, memo>>

\* POST /auth/login
LoginRoute(obj, dbOk) ==
    LET resp == login_route(obj, users, now, dbOk)
    IN  /\ UserLoginDTO(obj)
        /\ resp.ok => (resp.body \in issued \/ Cardinality(issued) < MaxIssued)
        /\ issued' = IF resp.ok THEN issued \cup {resp.body} ELSE issued
        /\ Done([op |-> "login_route"], resp)
        /\ UNCHANGED <<users, now, pend, api, cache, ppend, plast, memo>>

\* a logout with a server-side effect: it disables every account
Logout_disabling_accounts ==
    /\ Done([op |-> "logout"], logout)
    /\ users' = [id \in DOMAIN users |-> [users[id] EXCEPT !.is_active = FALSE]]
    /\ UNCHANGED <<now, issued, pend, api, cache, ppend, plast, memo>>

\* GET /auth/logout
Logout ==
    /\ Done([op |-> "logout"], logout)
    /\ UNCHANGED <<users, now, issued, pend, api, cache, ppend, plast, memo>>

\* ---------------------------------------------------------- gated requests
Cookies == ForeignCookies \cup issued

\* GET /auth/validate (token_dependency)
Validate_session(cookie) ==
    /\ Done([op |-> "validate", cookie |-> cookie], get_token(cookie, now))
    /\ UNCHANGED <<users, now, issued, pend, api, cache, ppend, plast, memo>>

\* GET /profile/me (user_dependency)
Me(cookie, dbOk) ==
    /\ Done([op |-> "me", cookie |-> cookie, dbOk |-> dbOk], get_user(cookie, now, users, dbOk))
    /\ UNCHANGED <<users, now, issued, pend, api, cache, ppend, plast, memo>>

\* GET /admin/logs (admin_dependency)
Logs(cookie, dbOk) ==
    /\ Done([op |-> "logs", cookie |-> cookie, dbOk |-> dbOk],
            get_admin(get_user(cookie, now, users, dbOk)))
    /\ UNCHANGED <<users, now, issued, pend, api, cache, ppend, plast, memo>>

\* a deactivate route that asks for the user tier only
DeactivateGate_user_tier(s, cookie, dbOk) ==
    /\ pend[s] = Idle
    /\ LET req == [op |-> "deactivate"]
           gate == get_user(cookie, now, users, dbOk)
       IN  IF gate.ok
           THEN /\ pend' = [pend EXCEPT ![s] = [op |-> "deactivate", user |-> gate.body]]
                /\ UNCHANGED last
           ELSE /\ Done(req, gate)
                /\ UNCHANGED pend
    /\ UNCHANGED <<users, now, issued, api, cache, ppend, plast, memo>>

\* POST /admin/users/{id}/deactivate, first step: admin_dependency resolves `user`
DeactivateGate(s, cookie, dbOk) ==
    /\ pend[s] = Idle
    /\ LET req == [op |-> "deactivate"]
           gate == get_admin(get_user(cookie, now, users, dbOk))
       IN  IF gate.ok
           THEN /\ pend' = [pend EXCEPT ![s] = [op |-> "deactivate", user |-> gate.body]]
                /\ UNCHANGED last
           ELSE /\ Done(req, gate)
                /\ UNCHANGED pend
    /\ UNCHANGED <<users, now, issued, api, cache, ppend, plast, memo>>

\* a deactivation that also blanks the record's personal fields
repo_deactivate_user_scrubbed(dir, id) ==
    [dir EXCEPT ![id].is_active = FALSE, ![id].username = Empty, ![id].hash_password = Empty]

\* user_repo.deactivate_user
repo_deactivate_user(dir, id) == [dir EXCEPT ![id].is_active = FALSE]

\* the deactivate handler's answer, with the id of the path it was asked on
DoneOn(id, resp) == last' = [op |-> "deactivate", id |-> id, resp |-> resp]

\* POST /admin/users/{id}/deactivate, second step: user_service.deactivate_user
DeactivateHandler(s, id) ==
    /\ pend[s].op = "deactivate"
    /\ IF id \notin DOMAIN users
           THEN /\ DoneOn(id, AppException("User not found", 404, CookieUntouched))
                /\ UNCHANGED users
           ELSE /\ users' = repo_deactivate_user(users, id)
                /\ DoneOn(id, Ok(200, repo_deactivate_user(users, id)[id], CookieUntouched))
    /\ pend' = [pend EXCEPT ![s] = Idle]
    /\ UNCHANGED <<now, issued, api, cache, ppend, plast, memo>>

Tick ==
    /\ now < MaxTime
    /\ now' = now + 1
    /\ memo' = IF cache.present /\ now' >= cache.expires
               THEN [memo EXCEPT !.claimed = FALSE, !.strict = FALSE]
               ELSE memo
    /\ UNCHANGED <<users, issued, pend, last, api, cache, ppend, plast>>

\* ------------------------------------------------------------ posts proxy
\* what the external source can serve: {id, title, body, userId} records
Post1 == [id |-> 1, title |-> <<"A", "b">>, body |-> <<"x">>, userId |-> 1]
Post2 == [id |-> 2, title |-> <<"x">>, body |-> <<"a", "b", "x">>, userId |-> 1]
Post3 == [id |-> 3, title |-> <<"b", "a">>, body |-> <<"x">>, userId |-> 2]
ApiData == {<<>>, <<Post1, Post2, Post3>>}

\* json.dumps / json.loads of a list that came out of response.json()
JsonDumps(posts) == [json |-> posts]
JsonLoads(text) == text.json

NoEntry == [present |-> FALSE, value |-> JsonDumps(<<>>), expires |-> 0]
NoPosts == [hit |-> FALSE, posts |-> <<>>]

\* _get_cached_posts looking under a key that is never written
_get_cached_posts_wrong_key(entry, t, redisOk) == NoPosts

\* _get_cached_posts: the snapshot, or None when absent, expired or the backend fails
_get_cached_posts(entry, t, redisOk) ==
    IF ~redisOk
    THEN NoPosts
    ELSE IF entry.present /\ t < entry.expires
    THEN [hit |-> TRUE, posts |-> JsonLoads(entry.value)]
    ELSE NoPosts

\* _cache_posts that only populates an absent key (SET NX) and so never overwrites
_cache_posts_if_absent(entry, posts, t, redisOk) ==
    IF redisOk /\ ~(entry.present /\ t < entry.expires)
    THEN [present |-> TRUE, value |-> JsonDumps(posts), expires |-> t + CACHE_EXPIRE]
    ELSE entry

\* _cache_posts: setex(key, cache_expire, json.dumps(posts)); backend errors are swallowed
_cache_posts(entry, posts, t, redisOk) ==
    IF redisOk
    THEN [present |-> TRUE, value |-> JsonDumps(posts), expires |-> t + CACHE_EXPIRE]
    ELSE entry

\* clear_cache deleting a key the snapshot is not stored under
clear_cache_wrong_key(entry, redisOk) == entry

\* clear_cache: delete(key); backend errors are swallowed
clear_cache(entry, redisOk) == IF redisOk THEN NoEntry ELSE entry

\* Python's `sub in s` on strings
Contains(str, sub) ==
    \E k \in 0..(Len(str) - Len(sub)) : SubSeq(str, k + 1, k + Len(sub)) = sub

NoSearch == [given |-> FALSE, text |-> <<>>]
Search(text) == [given |-> TRUE, text |-> text]

\* a filter that looks at titles only
_filter_posts_titles_only(posts, search) ==
    IF ~search.given \/ search.text = <<>>
    THEN posts
    ELSE LET search_lower == Lower(search.text)
             Keep(post) == Contains(Lower(post.title), search_lower)
         IN  SelectSeq(posts, Keep)

_filter_posts(posts, search) ==
    IF ~search.given \/ search.text = <<>>
    THEN posts
    ELSE LET search_lower == Lower(search.text)
             Keep(post) ==
                 \/ Contains(Lower(post.title), search_lower)
                 \/ Contains(Lower(post.body), search_lower)
         IN  SelectSeq(posts, Keep)

Min(a, b) == IF a <= b THEN a ELSE b

\* math.ceil(total / per_page)
CeilDiv(total, per_page) == (total + per_page - 1) \div per_page

\* posts[start:end]
Slice(posts, start, end) == SubSeq(posts, start + 1, Min(end, Len(posts)))

Page(posts, total, has_next, has_prev) ==
    [posts |-> posts, total |-> total, has_next |-> has_next, has_prev |-> has_prev]

\* _paginate_posts without the early return for an empty list
_paginate_posts_no_empty_case(posts, page, per_page) ==
    LET total == Len(posts)
        total_pages == CeilDiv(total, per_page)
        start == (page - 1) * per_page
        end == start + per_page
    IN  Page(Slice(posts, start, end), total, page < total_pages, page > 1)

\* _paginate_posts starting each page one post late
_paginate_posts_shifted(posts, page, per_page) ==
    LET total == Len(posts)
        total_pages == CeilDiv(total, per_page)
        start == (page - 1) * per_page + 1
        end == start + per_page
    IN  IF total = 0
        THEN Page(<<>>, 0, FALSE, FALSE)
        ELSE Page(Slice(posts, start, end), total, page < total_pages, page > 1)

\* _paginate_posts with a slice that runs one post past the page
_paginate_posts_inclusive_end(posts, page, per_page) ==
    LET total == Len(posts)
        total_pages == CeilDiv(total, per_page)
        start == (page - 1) * per_page
        end == start + per_page + 1
    IN  IF total = 0
        THEN Page(<<>>, 0, FALSE, FALSE)
        ELSE Page(Slice(posts, start, end), total, page < total_pages, page > 1)

_paginate_posts(posts, page, per_page) ==
    LET total == Len(posts)
        total_pages == CeilDiv(total, per_page)
        start == (page - 1) * per_page
        end == start + per_page
    IN  IF total = 0
        THEN Page(<<>>, 0, FALSE, FALSE)
        ELSE Page(Slice(posts, start, end), total, page < total_pages, page > 1)

\* Post(**post)
ToPost(post) ==
    [id |-> post.id, title |-> post.title, body |-> post.body, userId |-> post.userId]

\* get_posts from the snapshot on: filter, paginate, build the PostListResponse
get_posts_response(posts_data, args) ==
    LET filtered_posts == _filter_posts(posts_data, args.search)
        paginated == _paginate_posts(filtered_posts, args.page, args.per_page)
    IN  Ok(200,
           [posts |-> [k \in 1..Len(paginated.posts) |-> ToPost(paginated.posts[k])],
            total |-> paginated.total,
            page |-> args.page,
            per_page |-> args.per_page,
            has_next |-> paginated.has_next,
            has_prev |-> paginated.has_prev],
           CookieUntouched)

\* the route without `except HTTPException: raise`: its own 404 is wrapped into a 500
get_post_by_id_response_wrapped_404(posts_data, post_id) ==
    LET found == {k \in 1..Len(posts_data) : posts_data[k].id = post_id}
    IN  IF found = {}
        THEN AppException("Failed to fetch post", 500, CookieUntouched)
        ELSE Ok(200, ToPost(posts_data[CHOOSE k \in found : \A other \in found : k <= other]),
                CookieUntouched)

\* get_post_by_id from the snapshot on, and the route's 404
get_post_by_id_response(posts_data, post_id) ==
    LET found == {k \in 1..Len(posts_data) : posts_data[k].id = post_id}
    IN  IF found = {}
        THEN AppException("Post not found", 404, CookieUntouched)
        ELSE Ok(200, ToPost(posts_data[CHOOSE k \in found : \A other \in found : k <= other]),
                CookieUntouched)

FetchFailed(op) ==
    AppException(IF op = "get_posts" THEN "Failed to fetch posts" ELSE "Failed to fetch post",
                 500, CookieUntouched)

PSlots == {1, 2}
NoArgs == [page |-> 0, per_page |-> 0, search |-> NoSearch]
NoCall == [op |-> "none", args |-> NoArgs, data |-> <<>>, resp |-> Ok(200, NoBody, CookieUntouched),
           fetched |-> FALSE, follows |-> "no", prev |-> Ok(200, NoBody, CookieUntouched),
           upstream |-> "none", backend |-> "unrecorded"]
NoMemo == [args |-> NoArgs, resp |-> Ok(200, NoBody, CookieUntouched),
           claimed |-> FALSE, strict |-> FALSE, cleared |-> FALSE]

\* how a get_posts call that reads the cache now stands to the previous get_posts call:
\* "strict" when the snapshot was left alone since, "claimed" when nothing but another
\* request's write touched it, "no" otherwise ("unavailable" marks a suspended call whose
\* cache read failed); "cleared" when the call is the first to start after a clear_cache
\* that reached the backend
Following ==
    IF memo.cleared THEN "cleared"
    ELSE IF memo.strict THEN "strict" ELSE IF memo.claimed THEN "claimed" ELSE "no"
FollowsWith(following, args) ==
    IF following = "cleared" \/ memo.args = args THEN following ELSE "no"

\* how the cache backend answered a call's read and its write
Backend(readOk, writeOk) ==
    IF readOk
    THEN IF writeOk THEN "ok" ELSE "write_failed"
    ELSE IF writeOk THEN "read_failed" ELSE "down"

\* a get_posts call completes; `upstream` is "none" on a hit, else how the external fetch
\* ended; `backend` is how the cache backend answered the call (kept for get_posts only)
PostsDone(args, data, resp, upstream, following, backend) ==
    /\ plast' = [op |-> "get_posts", args |-> args, data |-> data, resp |-> resp,
                 fetched |-> upstream # "none", follows |-> FollowsWith(following, args),
                 prev |-> IF FollowsWith(following, args) \in {"no", "cleared"}
                          THEN NoCall.prev
                          ELSE memo.resp,
                 upstream |-> upstream, backend |-> backend]
    /\ memo' = [args |-> args, resp |-> resp, claimed |-> resp.ok /\ backend = "ok",
                strict |-> resp.ok /\ backend = "ok",
                cleared |-> IF upstream = "none" THEN FALSE ELSE memo.cleared]

\* a get_post_by_id call completes; `written` says it replaced the snapshot
ByIdDone(post_id, data, resp, upstream, written) ==
    /\ plast' = [NoCall EXCEPT !.op = "get_post_by_id", !.args.page = post_id, !.data = data,
                               !.resp = resp, !.fetched = upstream # "none",
                               !.upstream = upstream,
                               !.follows = IF upstream = "none" /\ memo.cleared
                                           THEN "cleared" ELSE "no"]
    /\ memo' = [memo EXCEPT !.strict = IF written THEN FALSE ELSE @,
                            !.cleared = IF upstream = "none" THEN FALSE ELSE @]

\* GET /posts served from the cache: one step, nothing to wait for
\* a hit that restarts the entry's time-to-live
GetPostsHit_sliding(args) ==
    LET cached == _get_cached_posts(cache, now, TRUE)
    IN  /\ cached.hit
        /\ PostsDone(args, cached.posts, get_posts_response(cached.posts, args), "none",
                     Following, "ok")
        /\ cache' = [cache EXCEPT !.expires = now + CACHE_EXPIRE]
        /\ UNCHANGED <<users, now, issued, pend, last, api, ppend>>

GetPostsHit(args) ==
    LET cached == _get_cached_posts(cache, now, TRUE)
    IN  /\ cached.hit
        /\ PostsDone(args, cached.posts, get_posts_response(cached.posts, args), "none",
                     Following, "ok")
        /\ UNCHANGED <<users, now, issued, pend, last, api, cache, ppend>>

\* GET /posts/{id} served from the cache
GetPostByIdHit(post_id) ==
    LET cached == _get_cached_posts(cache, now, TRUE)
    IN  /\ cached.hit
        /\ ByIdDone(post_id, cached.posts, get_post_by_id_response(cached.posts, post_id),
                    "none", FALSE)
        /\ UNCHANGED <<users, now, issued, pend, last, api, cache, ppend>>

\* a cache read without the except clause: a backend error ends the request
PostsMiss_fail_closed(s, op, redisOk) ==
    /\ ppend[s] = Idle
    /\ ~_get_cached_posts(cache, now, redisOk).hit
    /\ IF redisOk
       THEN /\ ppend' = [ppend EXCEPT ![s] =
                           [op |-> op, stage |-> "fetch", data |-> <<>>,
                            follows |-> IF op = "get_posts" THEN Following ELSE "no"]]
            /\ memo' = [memo EXCEPT !.cleared = FALSE]
            /\ UNCHANGED plast
       ELSE /\ IF op = "get_posts"
               THEN PostsDone(NoArgs, <<>>, FetchFailed(op), "none", "no", "read_failed")
               ELSE ByIdDone(0, <<>>, FetchFailed(op), "none", FALSE)
            /\ UNCHANGED ppend
    /\ UNCHANGED <<users, now, issued, pend, last, api, cache>>

\* either handler finds no snapshot and sends the request to the external source;
\* its arguments are not read before it resumes
PostsMiss(s, op, redisOk) ==
    /\ ppend[s] = Idle
    /\ ~_get_cached_posts(cache, now, redisOk).hit
    /\ ppend' = [ppend EXCEPT ![s] =
                    [op |-> op, stage |-> "fetch", data |-> <<>>,
                     follows |-> IF op # "get_posts" THEN "no"
                                 ELSE IF redisOk THEN Following ELSE "unavailable"]]
    /\ memo' = [memo EXCEPT !.cleared = FALSE]
    /\ UNCHANGED <<users, now, issued, pend, last, api, cache, plast>>

\* a fetch whose failure is cached as an empty list before the request fails
PostsFetched_caches_failure(s, apiOk) ==
    /\ ppend[s].op \in {"get_posts", "get_post_by_id"}
    /\ ppend[s].stage = "fetch"
    /\ IF apiOk
       THEN /\ ppend' = [ppend EXCEPT ![s].stage = "store", ![s].data = api]
            /\ UNCHANGED <<plast, memo, cache>>
       ELSE /\ ppend' = [ppend EXCEPT ![s] = Idle]
            /\ cache' = _cache_posts(cache, <<>>, now, TRUE)
            /\ IF ppend[s].op = "get_posts"
               THEN PostsDone(NoArgs, <<>>, FetchFailed("get_posts"), "failed", "no",
                              Backend(ppend[s].follows # "unavailable", TRUE))
               ELSE ByIdDone(0, <<>>, FetchFailed("get_post_by_id"), "failed", FALSE)
    /\ UNCHANGED <<users, now, issued, pend, last, api>>

\* the external source answers (or fails: the request ends with a 500, nothing is cached)
PostsFetched(s, apiOk) ==
    /\ ppend[s].op \in {"get_posts", "get_post_by_id"}
    /\ ppend[s].stage = "fetch"
    /\ IF apiOk
       THEN /\ ppend' = [ppend EXCEPT ![s].stage = "store", ![s].data = api]
            /\ UNCHANGED <<plast, memo>>
       ELSE /\ ppend' = [ppend EXCEPT ![s] = Idle]
            /\ IF ppend[s].op = "get_posts"
               THEN PostsDone(NoArgs, <<>>, FetchFailed("get_posts"), "failed", "no",
                              Backend(ppend[s].follows # "unavailable", TRUE))
               ELSE ByIdDone(0, <<>>, FetchFailed("get_post_by_id"), "failed", FALSE)
    /\ UNCHANGED <<users, now, issued, pend, last, api, cache>>

\* another get_posts call completed meanwhile: the suspended calls no longer follow memo's
Overtaken(s) ==
    [q \in PSlots |-> IF q = s THEN Idle
                      ELSE IF ppend[q] = Idle \/ ppend[q].follows = "unavailable" THEN ppend[q]
                      ELSE [ppend[q] EXCEPT !.follows = "no"]]

\* get_posts resumes with the fetched list: cache it, filter, paginate
GetPostsResume(s, args, redisOk) ==
    /\ ppend[s].op = "get_posts"
    /\ ppend[s].stage = "store"
    /\ cache' = _cache_posts(cache, ppend[s].data, now, redisOk)
    /\ PostsDone(args, ppend[s].data, get_posts_response(ppend[s].data, args), "ok",
                 IF redisOk /\ ppend[s].follows # "unavailable" THEN ppend[s].follows ELSE "no",
                 Backend(ppend[s].follows # "unavailable", redisOk))
    /\ ppend' = Overtaken(s)
    /\ UNCHANGED <<users, now, issued, pend, last, api>>

\* get_post_by_id resumes with the fetched list: cache it, scan it
GetPostByIdResume(s, post_id, redisOk) ==
    /\ ppend[s].op = "get_post_by_id"
    /\ ppend[s].stage = "store"
    /\ cache' = _cache_posts(cache, ppend[s].data, now, redisOk)
    /\ ByIdDone(post_id, ppend[s].data, get_post_by_id_response(ppend[s].data, post_id),
                "ok", redisOk)
    /\ ppend' = [ppend EXCEPT ![s] = Idle]
    /\ UNCHANGED <<users, now, issued, pend, last, api>>

ClearCache(redisOk) ==
    /\ cache' = clear_cache(cache, redisOk)
    /\ memo' = [memo EXCEPT !.claimed = FALSE, !.strict = FALSE,
                            !.cleared = IF redisOk THEN TRUE ELSE @]
    /\ plast' = [NoCall EXCEPT !.op = "clear_cache", !.backend = IF redisOk THEN "ok" ELSE "down"]
    /\ UNCHANGED <<users, now, issued, pend, last, api, ppend>>

\* the external source changes what it serves
ApiChange(data) ==
    /\ data # api
    /\ api' = data
    /\ UNCHANGED <<users, now, issued, pend, last, cache, ppend, plast, memo>>

\* ------------------------------------------------------------ specification
Init ==
    /\ users = <<>>
    /\ now = 0
    /\ issued = {}
    /\ pend = [s \in Slots |-> Idle]
    /\ last = [op |-> "none", resp |-> Ok(200, NoBody, CookieUntouched)]
    /\ api = <<Post1, Post2, Post3>>
    /\ cache = NoEntry
    /\ ppend = [s \in PSlots |-> Idle]
    /\ plast = NoCall
    /\ memo = NoMemo

Obj(email, password, username) == [email |-> email, password |-> password, username |-> username]
RegisterObjs ==
    {Obj(EmailA, PwGood, NameOk), Obj(EmailAUpper, PwGood, NameOk), Obj(EmailB, PwGood, NameOk),
     Obj(EmailShortTld, PwGood, NameOk), Obj(EmailA, PwWeak, NameOk), Obj(EmailB, PwGood, NameShort)}
AdminObjs == [email : {EmailB}, password : {PwGood}, username : {NameOk}]
Credentials(email, password) == [email |-> email, password |-> password]
LoginObjs ==
    [email : {EmailA, EmailAUpper, EmailB, EmailShortTld}, password : {PwGood, PwOther}]
        \cup {Credentials(Empty, PwGood), Credentials(EmailA, Empty), Credentials(EmailBlank, PwGood)}

\* the outcomes of a database call: it answers or it fails, where the request gets as far
\* as making the call
Outcomes(called) == IF called THEN BOOLEAN ELSE {TRUE}
RegisterReads(obj) == create_user_check(obj, users, FALSE).message = "Database error occurred"
RegisterWrites(obj, dbOk) == create_user_check(obj, users, dbOk).ok
LoginReads(obj) == login(obj, users, now, FALSE).message = "Database error occurred"
GateReads(cookie) == get_token(cookie, now).ok

Next ==
    \/ \E obj \in RegisterObjs : \E dbOk \in Outcomes(RegisterReads(obj)) :
          \E addOk \in Outcomes(RegisterWrites(obj, dbOk)) : Register(obj, dbOk, addOk)
    \/ \E obj \in AdminObjs : CreateAdmin(obj)
    \/ \E obj \in LoginObjs : \E dbOk \in Outcomes(LoginReads(obj)) : Login(obj, dbOk)
    \/ Logout
    \/ \E cookie \in Cookies : Validate_session(cookie)
    \/ \E cookie \in Cookies : \E dbOk \in Outcomes(GateReads(cookie)) : Me(cookie, dbOk)
    \/ \E cookie \in Cookies : \E dbOk \in Outcomes(GateReads(cookie)) : Logs(cookie, dbOk)
    \/ \E cookie \in Cookies : \E dbOk \in Outcomes(GateReads(cookie)) :
          DeactivateGate(1, cookie, dbOk)
    \/ \E id \in UUIDs \cup {GhostUUID} : DeactivateHandler(1, id)
    \/ Tick

Spec == Init /\ [][Next]_vars

\* the posts proxy under concurrent requests, a changing source and a fallible backend
Args(page, per_page, search) == [page |-> page, per_page |-> per_page, search |-> search]
TermAb == <<"a", "B">>
TermNone == <<"o">>
FewArgs == {Args(1, 2, NoSearch), Args(2, 1, Search(TermAb))}
PostIds == {1, 9}

\* the first slot carries GET /posts requests, the second requests of either route
SlotOps(s) == IF s = 1 THEN {"get_posts"} ELSE {"get_posts", "get_post_by_id"}

PostsNext ==
    \/ \E args \in FewArgs : GetPostsHit(args)
    \/ \E id \in PostIds : GetPostByIdHit(id)
    \/ \E s \in PSlots : \E op \in SlotOps(s), redisOk \in BOOLEAN : PostsMiss(s, op, redisOk)
    \/ \E s \in PSlots, apiOk \in BOOLEAN : PostsFetched(s, apiOk)
    \/ \E s \in PSlots, args \in FewArgs, redisOk \in BOOLEAN : GetPostsResume(s, args, redisOk)
    \/ \E s \in PSlots, id \in PostIds, redisOk \in BOOLEAN : GetPostByIdResume(s, id, redisOk)
    \/ \E redisOk \in BOOLEAN : ClearCache(redisOk)
    \/ \E data \in ApiData : ApiChange(data)
    \/ Tick

PostsSpec == Init /\ [][PostsNext]_vars

\* the posts proxy serving one request at a time, over every page, page size and search
Searches == {NoSearch, Search(<<>>), Search(TermAb), Search(TermNone)}
AllArgs == [page : 1..MaxPage, per_page : 1..MaxPerPage, search : Searches]

PageNext ==
    \/ \E args \in AllArgs : GetPostsHit(args)
    \/ \E redisOk \in BOOLEAN : PostsMiss(1, "get_posts", redisOk)
    \/ \E apiOk \in BOOLEAN : PostsFetched(1, apiOk)
    \/ \E args \in AllArgs, redisOk \in BOOLEAN : GetPostsResume(1, args, redisOk)
    \/ \E redisOk \in BOOLEAN : ClearCache(redisOk)
    \/ \E data \in ApiData : ApiChange(data)

PageSpec == Init /\ [][PageNext]_vars

\* registrations in flight together, next to seeding
RegNext ==
    \/ \E s \in Slots, obj \in RegisterObjs, dbOk \in BOOLEAN : RegisterCheck(s, obj, dbOk)
    \/ \E s \in Slots, addOk \in BOOLEAN : RegisterInsert(s, addOk)
    \/ \E obj \in AdminObjs : CreateAdmin(obj)

RegSpec == Init /\ [][RegNext]_vars

\* accounts, sessions and the posts proxy side by side, as reached over HTTP
SiteLoginObjs ==
    {Credentials(EmailB, PwGood), Credentials(EmailB, PwOther), Credentials(EmailA, PwGood),
     Credentials(Empty, PwGood)}

SiteNext ==
    \/ \E obj \in AdminObjs : CreateAdmin(obj)
    \/ \E obj \in SiteLoginObjs, dbOk \in BOOLEAN : LoginRoute(obj, dbOk)
    \/ Logout
    \/ \E cookie \in Cookies : DeactivateGate(1, cookie, TRUE)
    \/ \E id \in UUIDs : DeactivateHandler(1, id)
    \/ PostsMiss(1, "get_posts", TRUE)
    \/ \E apiOk \in BOOLEAN : PostsFetched(1, apiOk)
    \/ \E args \in FewArgs, redisOk \in BOOLEAN : GetPostsResume(1, args, redisOk)
    \/ \E redisOk \in BOOLEAN : ClearCache(redisOk)
    \/ Tick

SiteSpec == Init /\ [][SiteNext]_vars

\* ------------------------------------------------- claims: session manager
\* the record a login with obj is about: the user whose stored email is obj's normalised email
AccountsOf(obj) == {id \in DOMAIN users : users[id].email = format_string(obj.email)}
ValidCredentials(obj) ==
    \E id \in AccountsOf(obj) :
        users[id].is_active /\ Validate(obj.password, users[id].hash_password)
ClaimsOf(id) == [user_id |-> id, role |-> users[id].role]

\* C1: a login with the email of an existing active user and a password that
\* verifies against the stored hash (the directory answering) succeeds, returns
\* the signed token, and sets the session cookie to that same token, whose claims
\* decode (signature check, UUID parse) to that user's id and role.
C1_LoginIssuesSession ==
    \A obj \in LoginObjs :
        ValidCredentials(obj) =>
            LET resp == login(obj, users, now, TRUE)
            IN  /\ resp.ok
                /\ resp.status = 200
                /\ resp.body.kind = "jwt"
                /\ resp.cookie.op = "set"
                /\ resp.cookie.value = resp.body
                /\ \E id \in AccountsOf(obj) :
                      LET decoded == get_token(resp.cookie.value, now)
                      IN  decoded.ok /\ decoded.body = ClaimsOf(id)

\* C1 witness: an administrator has just logged in and holds the issued token
C1_Witness ==
    /\ last.op = "login"
    /\ last.resp.ok
    /\ last.resp.cookie.op = "set"
    /\ last.resp.cookie.value \in issued
    /\ \E id \in DOMAIN users :
          /\ users[id].is_active
          /\ users[id].role = ADMIN
          /\ JwtDecode(last.resp.body).user_id = UuidStr(id)

\* a well-formed login against an email that has no user record
UnknownEmail(obj) ==
    /\ obj.email # Empty /\ obj.password # Empty
    /\ format_string(obj.email) # Empty
    /\ AccountsOf(obj) = {}
\* a login with a wrong password against the email of an existing active user
WrongPassword(obj) ==
    /\ obj.password # Empty
    /\ \E id \in AccountsOf(obj) :
          users[id].is_active /\ ~Validate(obj.password, users[id].hash_password)

\* C2: a login against an email without a record and a login with a wrong
\* password against an existing active user's email fail with the same status
\* code and the same message.
C2_SameFailure ==
    [][\A obj \in LoginObjs, other \in LoginObjs :
          (last'.op = "login" /\ UnknownEmail(obj) /\ WrongPassword(other) /\ Login(obj, TRUE)) =>
              LET wrong == login(other, users, now, TRUE)
              IN  /\ ~last'.resp.ok /\ ~wrong.ok
                  /\ last'.resp.status = wrong.status
                  /\ last'.resp.message = wrong.message]_vars

\* ------------------------------------------------------- claims: auth gate
SignedClaims(cookie) == JwtDecode(cookie) # NoClaims
PastExpiry(cookie, t) ==
    /\ SignedClaims(cookie)
    /\ JwtDecode(cookie).exp # None
    /\ JwtDecode(cookie).exp < t

\* C3: a correctly signed token whose embedded expiry instant is in the past
\* when the request is served makes get_token fail with a 401 and delete the
\* session cookie on the response.
C3_ExpiredTokenRejected ==
    \A cookie \in Cookies :
        PastExpiry(cookie, now) =>
            LET resp == get_token(cookie, now)
            IN  /\ ~resp.ok
                /\ resp.status = 401
                /\ resp.cookie = CookieDeleted

\* C3 witness: a token issued by login was presented after its expiry
C3_Witness ==
    /\ last.op = "validate"
    /\ last.resp.status = 401
    /\ last.resp.cookie = CookieDeleted
    /\ \E cookie \in issued : PastExpiry(cookie, now) /\ get_token(cookie, now) = last.resp

\* the token was issued by login to a user who has been deactivated since, and is unexpired
DeactivatedHolder(cookie) ==
    /\ cookie \in issued
    /\ ~PastExpiry(cookie, now)
    /\ \E id \in DOMAIN users :
          /\ JwtDecode(cookie).user_id = UuidStr(id)
          /\ ~users[id].is_active

\* C4: once a user's deactivation is committed, every request presenting the
\* unexpired token issued to that user passes get_token and fails get_user with
\* a 401 and a deleted cookie (the directory is read when the request is served).
C4_DeactivatedUserBlocked ==
    \A cookie \in Cookies :
        DeactivatedHolder(cookie) =>
            LET resp == get_user(cookie, now, users, TRUE)
            IN  /\ get_token(cookie, now).ok
                /\ ~resp.ok
                /\ resp.status = 401
                /\ resp.cookie = CookieDeleted

\* C4 witness: /profile/me has just refused the token of a deactivated user
C4_Witness ==
    /\ last.op = "me"
    /\ last.resp.status = 401
    /\ last.resp.message = "Account deactivated"
    /\ last.resp.cookie = CookieDeleted
    /\ \E cookie \in issued : DeactivatedHolder(cookie) /\ get_token(cookie, now).ok

\* C5: for a request that passes Tier 2, get_admin passes exactly when the role
\* of the live user record is ADMIN; for any other role it fails with a 403 and
\* neither sets nor deletes the session cookie.
C5_AdminOnly ==
    \A cookie \in Cookies :
        get_user(cookie, now, users, TRUE).ok =>
            LET live == users[get_token(cookie, now).body.user_id]
                resp == get_admin(get_user(cookie, now, users, TRUE))
            IN  /\ resp.ok <=> live.role = ADMIN
                /\ live.role = ADMIN => resp.body = live
                /\ live.role # ADMIN =>
                      /\ resp.status = 403
                      /\ resp.cookie = CookieUntouched

\* C5 witness: an authenticated ordinary user was refused by /admin/logs
C5_Witness ==
    /\ last.op = "logs"
    /\ last.resp.status = 403
    /\ last.resp.cookie = CookieUntouched
    /\ \E cookie \in issued :
          /\ get_user(cookie, now, users, TRUE).ok
          /\ get_user(cookie, now, users, TRUE).body.role = USER

\* C6: a token that passes Tier 1 but names a user id without a record makes
\* get_user fail with a 401 (not a 404 or another class).
C6_MissingUserIs401 ==
    [][\A cookie \in Cookies :
          (last'.op = "me" /\ get_token(cookie, now).ok
              /\ get_token(cookie, now).body.user_id \notin DOMAIN users /\ Me(cookie, TRUE)) =>
              /\ ~last'.resp.ok
              /\ last'.resp.status = 401]_vars

\* C7: every failure raised by get_token or get_user deletes the session cookie
\* on the response.
C7_FailureDeletesCookie ==
    (last.op \in {"validate", "me"} /\ ~last.resp.ok) => last.resp.cookie = CookieDeleted

\* ---------------------------------------------------------------- posts claims
SnapshotUsed == plast.data
FilteredUsed == _filter_posts(plast.data, plast.args.search)
Listed == plast.op = "get_posts" /\ plast.resp.ok

\* C8 as stated: with the cache backend available, a get_posts call that follows another
\* get_posts call with the same arguments, with no TTL expiry and no clear_cache in between,
\* returns an identical result and performs no external fetch.
C8_RepeatIdentical ==
    (plast.op = "get_posts" /\ plast.follows \in {"claimed", "strict"})
        => (plast.resp = plast.prev /\ ~plast.fetched)

\* C8 amended: with the cache backend available, a get_posts call that follows a successful
\* get_posts call with the same arguments, with no TTL expiry, no clear_cache and no cache
\* write by any other request in between, returns an identical result and performs no
\* external fetch.
C8_RepeatIdenticalUndisturbed ==
    (plast.op = "get_posts" /\ plast.follows = "strict")
        => (plast.resp = plast.prev /\ ~plast.fetched)

C8_Witness ==
    /\ plast.op = "get_posts"
    /\ plast.follows = "strict"
    /\ plast.resp.ok
    /\ plast.resp = plast.prev
    /\ ~plast.fetched
    /\ Len(plast.resp.body.posts) > 0

\* the least n with n * per_page >= total
CeilOf(total, per_page) ==
    CHOOSE n \in 0..total : n * per_page >= total /\ \A m \in 0..total : m * per_page >= total => n <= m

\* the elements at 0-based positions [lo, hi) of a list, positions past the end dropped
Between(list, lo, hi) ==
    LET top == IF hi <= Len(list) THEN hi ELSE Len(list)
        size == IF top > lo THEN top - lo ELSE 0
    IN  [k \in 1..size |-> list[lo + k]]

Range25 == [k \in 1..25 |-> k]

\* C9: for every non-empty filtered list and every page >= 1 and per_page >= 1, get_posts
\* returns total = length of the filtered list, items = the slice
\* [(page-1)*per_page, page*per_page) of it, has_next = (page < ceil(total/per_page)) and
\* has_prev = (page > 1); total 25, per_page 10, page 3 gives 5 items, has_next false,
\* has_prev true.
C9_PageOfFilteredList ==
    /\ (Listed /\ FilteredUsed # <<>>) =>
          LET page == plast.args.page
              per_page == plast.args.per_page
              body == plast.resp.body
          IN  /\ body.total = Len(FilteredUsed)
              /\ body.posts = Between(FilteredUsed, (page - 1) * per_page, page * per_page)
              /\ body.has_next = (page < CeilOf(Len(FilteredUsed), per_page))
              /\ body.has_prev = (page > 1)
    /\ LET third == _paginate_posts(Range25, 3, 10)
       IN  /\ third.posts = <<21, 22, 23, 24, 25>>
           /\ third.total = 25
           /\ ~third.has_next
           /\ third.has_prev

C9_Witness ==
    /\ Listed
    /\ Len(FilteredUsed) = 3
    /\ plast.args.page = 2
    /\ plast.args.per_page = 2
    /\ Len(plast.resp.body.posts) = 1
    /\ ~plast.resp.body.has_next
    /\ plast.resp.body.has_prev

\* C10: when the filtered list is empty (the search matches nothing, or the snapshot is
\* empty), get_posts returns total = 0, an empty posts list, has_next = false and
\* has_prev = false for every requested page number, including page > 1.
C10_EmptyPage ==
    (Listed /\ FilteredUsed = <<>>) =>
        /\ plast.resp.body.total = 0
        /\ plast.resp.body.posts = <<>>
        /\ ~plast.resp.body.has_next
        /\ ~plast.resp.body.has_prev

C10_Witness ==
    /\ Listed
    /\ SnapshotUsed # <<>>
    /\ FilteredUsed = <<>>
    /\ plast.args.page > 1
    /\ plast.resp.body.total = 0
    /\ ~plast.resp.body.has_prev

\* C11: when the cache backend raises on read, get_posts treats it as a miss, fetches from
\* the external source and returns what a clean miss returns for the fetched list; when
\* the backend also raises on the following write, the request still succeeds with that
\* result.
C11_BackendErrorFailsOpen ==
    (plast.op = "get_posts" /\ plast.backend \in {"read_failed", "down"}) =>
        /\ plast.fetched
        /\ plast.upstream = "ok" =>
              /\ plast.resp.ok
              /\ plast.resp = get_posts_response(plast.data, plast.args)
        /\ plast.upstream = "failed" => plast.resp = FetchFailed("get_posts")
        /\ plast.backend = "down" => plast.resp.ok

C11_Witness ==
    /\ plast.op = "get_posts"
    /\ plast.backend = "down"
    /\ plast.fetched
    /\ plast.resp.ok
    /\ plast.resp.body.total = 3
    /\ ~cache.present

\* C12: on a cache miss where the external fetch fails, get_posts and get_post_by_id fail
\* the request with a 500, return no data, and write nothing to the cache: neither the
\* step that observes the miss nor the step in which the fetch fails changes the cache.
C12_FetchFailureWritesNothing ==
    [][\A s \in PSlots :
          /\ (ppend[s] = Idle /\ ppend'[s] # Idle) => cache' = cache
          /\ (ppend[s] # Idle /\ ppend[s].stage = "fetch" /\ ppend'[s] = Idle) =>
                /\ cache' = cache
                /\ plast'.op = ppend[s].op
                /\ plast'.upstream = "failed"
                /\ ~plast'.resp.ok
                /\ plast'.resp.status = 500
                /\ plast'.resp.body = NoBody
                /\ plast'.data = <<>>]_vars

\* a get_post_by_id request has just failed on its fetch while the snapshot another
\* request stored meanwhile is still in place
C12_Witness ==
    /\ plast.op = "get_post_by_id"
    /\ plast.upstream = "failed"
    /\ plast.resp.status = 500
    /\ cache.present
    /\ now < cache.expires
    /\ JsonLoads(cache.value) # <<>>

\* the request in slot s observed a miss, has fetched, and has not written yet
InStore(s) == ppend[s] # Idle /\ ppend[s].stage = "store"
\* the cache entry once the request in slot `first` and then the one in `second` have written
Landed(first, second) ==
    _cache_posts(_cache_posts(cache, ppend[first].data, now, TRUE), ppend[second].data, now, TRUE)

\* C13 as stated: when two posts requests both observe a miss before either writes, each
\* fetches and each writes, and the resulting cache content is the same whichever write
\* lands last.
C13_OrderIndependent ==
    \A a \in PSlots, b \in PSlots :
        (a # b /\ InStore(a) /\ InStore(b)) => Landed(a, b).value = Landed(b, a).value

\* C13 amended: when two posts requests both observe a miss before either writes, each
\* fetches and each writes (no deduplication); every write replaces the snapshot
\* wholesale, so the cache ends up holding the list fetched by the request that writes
\* last, and the content is independent of the order of the two writes whenever both
\* fetches returned the same list.
C13_LastWriteWins ==
    \A a \in PSlots, b \in PSlots :
        (a # b /\ InStore(a) /\ InStore(b)) =>
            /\ Landed(a, b).present
            /\ JsonLoads(Landed(a, b).value) = ppend[b].data
            /\ ppend[a].data = ppend[b].data => Landed(a, b).value = Landed(b, a).value

\* two get_posts requests hold the same non-empty list, each from its own fetch, and the
\* cache they both missed is still empty
C13_Witness ==
    /\ \A s \in PSlots : InStore(s) /\ ppend[s].op = "get_posts"
    /\ ppend[1].data = ppend[2].data
    /\ ppend[1].data # <<>>
    /\ ~cache.present

\* positions of the posts with the requested id in the snapshot the last call used
Matching == {k \in 1..Len(plast.data) : plast.data[k].id = plast.args.page}
TwoWithOneId == <<Post2, [Post3 EXCEPT !.id = 2], Post1>>

\* C14: get_post_by_id uses the same cache-or-fetch step as get_posts (a hit serves the
\* cached snapshot), then returns the first post of the unfiltered snapshot whose id is
\* the requested one; when no post has that id the route answers 404 Not Found, not 500.
C14_PostById ==
    /\ (plast.op = "get_post_by_id" /\ plast.upstream # "failed") =>
          /\ ~plast.fetched => (cache.present /\ plast.data = JsonLoads(cache.value))
          /\ Matching = {} =>
                /\ ~plast.resp.ok
                /\ plast.resp.status = 404
                /\ plast.resp.message = "Post not found"
          /\ Matching # {} =>
                /\ plast.resp.ok
                /\ plast.resp.status = 200
                /\ \E k \in Matching :
                      /\ \A j \in Matching : k <= j
                      /\ plast.resp.body = plast.data[k]
    /\ get_post_by_id_response(TwoWithOneId, 2).body = Post2

\* a cached, non-empty snapshot was scanned for an id no post has: 404
C14_Witness ==
    /\ plast.op = "get_post_by_id"
    /\ ~plast.fetched
    /\ plast.data # <<>>
    /\ Matching = {}
    /\ plast.resp.status = 404

\* the cache holds the list the last call used
Repopulated == cache.present /\ JsonLoads(cache.value) = plast.data
\* clear_cache returns normally; once it reached the backend the snapshot is absent and
\* no read can hit
ClearedAway ==
    /\ plast.op = "clear_cache" => plast.resp.ok
    /\ (plast.op = "clear_cache" /\ plast.backend = "ok") =>
          /\ cache = NoEntry
          /\ ~_get_cached_posts(cache, now, TRUE).hit
\* a clear_cache whose backend call failed leaves the cache entry as it was
FailedClearChangesNothing ==
    (plast'.op = "clear_cache" /\ plast'.backend = "down") => cache' = cache

\* C15 as stated: clear_cache never raises; with the backend available the snapshot is
\* absent afterwards, so the next get_posts or get_post_by_id performs an external fetch
\* and repopulates the cache; with the backend failing it returns normally and changes
\* nothing.
C15_NextCallFetches ==
    /\ [](/\ ClearedAway
          /\ plast.follows = "cleared" =>
                /\ plast.fetched
                /\ plast.upstream = "ok" => Repopulated)
    /\ [][FailedClearChangesNothing]_vars

\* C15 amended: clear_cache never raises; with the backend available the snapshot is
\* absent afterwards and stays absent until some request writes it, so a call that reads
\* the cache before any such write performs an external fetch, and repopulates the cache
\* when its fetch and write succeed; with the backend failing clear_cache returns
\* normally and changes nothing.
C15_ClearEvicts ==
    /\ [](/\ ClearedAway
          /\ (plast.follows = "cleared" /\ plast.fetched /\ plast.upstream = "ok") => Repopulated)
    /\ [][FailedClearChangesNothing]_vars

\* the first call to start after a clear_cache missed, fetched and stored a non-empty list
C15_Witness ==
    /\ plast.op = "get_posts"
    /\ plast.follows = "cleared"
    /\ plast.fetched
    /\ plast.data # <<>>
    /\ Repopulated

\* ------------------------------------------- claims: session manager, continued
\* C16: on every successful login the session cookie is set http-only, secure and
\* same-site strict, and the cookie's expiry equals the expiry embedded in the token, both
\* being the login instant plus the configured session duration.
C16_CookieAttributes ==
    \A obj \in LoginObjs :
        LET resp == login(obj, users, now, TRUE)
        IN  resp.ok =>
                /\ resp.cookie.op = "set"
                /\ resp.cookie.httponly
                /\ resp.cookie.secure
                /\ resp.cookie.samesite = "strict"
                /\ resp.cookie.expires = now + SESSION_TIME
                /\ JwtDecode(resp.cookie.value).exp = resp.cookie.expires

\* an ordinary user has just logged in, later than the start of the clock
C16_Witness ==
    /\ last.op = "login"
    /\ last.resp.ok
    /\ now > 0
    /\ last.resp.cookie.expires = now + SESSION_TIME
    /\ JwtDecode(last.resp.body).role = USER

\* C17: logout deletes the session cookie on the response in every state, whatever cookie
\* the caller holds (none, valid, invalid or expired), never fails, passes no authentication
\* gate, and leaves the user directory and the posts cache as they were.
LogoutAnswered == last' # last /\ last'.op = "logout"
C17_LogoutFrame ==
    /\ [](logout.ok /\ logout.cookie = CookieDeleted /\ ENABLED Logout)
    /\ [][LogoutAnswered =>
            /\ last'.resp.ok
            /\ last'.resp.cookie = CookieDeleted
            /\ users' = users
            /\ cache' = cache
            /\ issued' = issued]_vars

\* logout answered while an account exists, a session token of it has expired and the
\* posts cache holds an entry
C17_Witness ==
    /\ last.op = "logout"
    /\ last.resp.cookie = CookieDeleted
    /\ DOMAIN users # {}
    /\ cache.present
    /\ \E token \in issued : token_expired(JwtDecode(token), now)

\* C18: a login for an existing but inactive user fails with the distinct "not verified"
\* error, status 403, which differs from the "invalid credentials" error, whether the
\* supplied password is the right one or not, and sets no cookie.
InactiveAccount(obj) == \E id \in AccountsOf(obj) : ~users[id].is_active
C18_InactiveIs403 ==
    \A obj \in LoginObjs :
        (obj.password # Empty /\ InactiveAccount(obj)) =>
            LET resp == login(obj, users, now, TRUE)
            IN  /\ ~resp.ok
                /\ resp.status = 403
                /\ resp.message = "Email not verified. Please check your inbox."
                /\ resp.message # "Invalid credentials"
                /\ resp.cookie = CookieUntouched

\* a deactivated account has just been refused, and both its password and another one
\* are among the logins the refusal covers
C18_Witness ==
    /\ last.op = "login"
    /\ last.resp.status = 403
    /\ \E id \in DOMAIN users :
        /\ ~users[id].is_active
        /\ \E right, wrong \in LoginObjs :
            /\ {id} = AccountsOf(right) /\ {id} = AccountsOf(wrong)
            /\ Validate(right.password, users[id].hash_password)
            /\ wrong.password # Empty
            /\ ~Validate(wrong.password, users[id].hash_password)

\* C19: the login HTTP operation returns to the caller the error class the session manager
\* raised, unwrapped: 400 for a missing or malformed email or password, 401 for invalid
\* credentials, 403 for an inactive account; only unexpected internal exceptions become 500.
C19_ErrorClassReturned ==
    \A obj \in LoginObjs :
        UserLoginDTO(obj) =>
            LET raised == login(obj, users, now, TRUE)
                returned == login_route(obj, users, now, TRUE)
            IN  (~raised.ok /\ raised.status \in {400, 401, 403}) =>
                    /\ returned.status = raised.status
                    /\ returned.message = raised.message

\* C20: whenever an unexpected internal exception occurs inside login, registration or gate
\* resolution, the error returned to the caller carries only a generic message: the text of
\* the original exception is never part of the returned error message.
C20_NoExceptionText ==
    (last.op \in {"login", "register", "validate", "me", "logs", "deactivate"} /\ ~last.resp.ok) =>
        last.resp.detail = NoDetail

\* ------------------------------------------------------ claims: user directory
\* C21: in every reachable state of the user directory, under any interleaving of concurrent
\* registrations, no two user records have the same normalized (trimmed, lower-cased) email.
C21_EmailUnique ==
    \A a \in DOMAIN users, b \in DOMAIN users :
        a # b => format_string(users[a].email) # format_string(users[b].email)

\* a registration that passed the pre-check has been refused by the insert, another
\* record with its normalized email having been stored in between
C21_Witness ==
    /\ last.op = "register"
    /\ ~last.resp.ok
    /\ last.resp.detail = <<"Email already exists">>
    /\ \E id \in DOMAIN users : users[id].role = USER

\* C22: a registration whose email is already taken fails with a conflict error (422,
\* "Email already exists") and creates no user, also when two registrations with the same
\* email both pass the existence pre-check: one succeeds, the other gets the 422.
RegistrationAnswered(s) == pend[s].op = "register" /\ pend'[s] = Idle
DatabaseFailed(resp) ==
    resp.message = "Database error occurred" \/ resp.detail = <<"Database error occurred">>
C22_TakenEmailIs422 ==
    [][\A s \in Slots :
        (/\ RegistrationAnswered(s)
         /\ EmailTaken(users, format_string(pend[s].obj.email))
         /\ ~DatabaseFailed(last'.resp)) =>
            /\ users' = users
            /\ last'.resp.status = 422
            /\ last'.resp.message = "Email already exists"
            /\ last'.resp.detail = NoDetail]_vars

\* C23: user records are never removed: deactivating an existing user only sets its active
\* flag to false and keeps the record and its other fields, deactivating an already
\* inactive user changes nothing, and deactivating an unknown id fails with a 404 and
\* changes nothing.
HandlerAnswered == \E s \in Slots : pend[s].op = "deactivate" /\ pend'[s] = Idle
C23_SoftDeactivation ==
    [][/\ DOMAIN users \subseteq DOMAIN users'
       /\ HandlerAnswered =>
            IF last'.id \in DOMAIN users
            THEN /\ last'.resp.ok
                 /\ users' = [users EXCEPT ![last'.id].is_active = FALSE]
                 /\ last'.resp.body = users'[last'.id]
                 /\ ~users[last'.id].is_active => users' = users
            ELSE /\ last'.resp.status = 404
                 /\ last'.resp.message = "User not found"
                 /\ users' = users]_vars

\* the handler has answered on a record that is kept, inactive, next to another record
C23_Witness ==
    /\ last.op = "deactivate"
    /\ last.resp.ok
    /\ last.id \in DOMAIN users
    /\ ~users[last.id].is_active
    /\ users[last.id].role = USER
    /\ Cardinality(DOMAIN users) = MaxUsers

\* C24: a user's active flag changes from true to false only as the effect of a deactivate
\* request whose caller passed all three tiers at gate resolution: a token that get_token
\* accepts, an existing active user record, and role ADMIN; anonymous callers and
\* non-admin users can never cause a deactivation.
Deactivated(id) == id \in DOMAIN users /\ users[id].is_active /\ ~users'[id].is_active
Admitted(s) == pend[s] = Idle /\ pend'[s].op = "deactivate"
PassedAllTiers(caller) ==
    \E cookie \in Cookies \ {NoCookie} :
        /\ get_token(cookie, now).ok
        /\ LET id == UuidOf(JwtDecode(cookie).user_id)
           IN  /\ id \in DOMAIN users
               /\ users[id] = caller
               /\ caller.is_active
               /\ caller.role = ADMIN
C24_OnlyAdminsDeactivate ==
    /\ [][\A s \in Slots : Admitted(s) => PassedAllTiers(pend'[s].user)]_vars
    /\ [][(\E id \in UUIDs : Deactivated(id)) =>
              /\ HandlerAnswered
              /\ last'.op = "deactivate"
              /\ Deactivated(last'.id)
              /\ \A other \in DOMAIN users \ {last'.id} : users'[other] = users[other]]_vars

\* an ordinary user has been deactivated while the administrator stays active
C24_Witness ==
    /\ last.op = "deactivate"
    /\ last.resp.ok
    /\ users[last.id].role = USER
    /\ \E id \in DOMAIN users : users[id].role = ADMIN /\ users[id].is_active

\* ------------------------------------------------------ claims: auth gate, continued
\* C25: get_token accepts a token only if the current time is strictly before its embedded
\* expiry: a token presented at exactly its expiry instant, and a decoded token that
\* carries no expiry at all, are rejected.
C25_StrictlyBeforeExpiry ==
    \A cookie \in Cookies :
        get_token(cookie, now).ok =>
            /\ JwtDecode(cookie).exp # None
            /\ now < JwtDecode(cookie).exp

\* ------------------------------------------------------ claims: posts proxy, continued
\* C26: a get_posts or get_post_by_id call served from the cache leaves the cache entry
\* unchanged, content and remaining time-to-live alike: search and pagination never write
\* the cache and hits never extend the TTL, so a snapshot is served for at most TTL after
\* the write that stored it, whatever the read traffic.
ServedFromCache ==
    /\ plast' # plast
    /\ plast'.op \in {"get_posts", "get_post_by_id"}
    /\ plast'.upstream = "none"
C26_HitsLeaveEntryAlone ==
    /\ [](cache.present => cache.expires <= now + CACHE_EXPIRE)
    /\ [][ServedFromCache =>
            /\ cache' = cache
            /\ cache.present
            /\ now < cache.expires
            /\ plast'.data = JsonLoads(cache.value)]_vars

\* a searched, later page has been served from an entry written one instant earlier
C26_Witness ==
    /\ plast.op = "get_posts"
    /\ plast.upstream = "none"
    /\ plast.args.search.given
    /\ plast.args.page = 2
    /\ cache.present
    /\ cache.expires = now + CACHE_EXPIRE - 1
    /\ plast.data = JsonLoads(cache.value)

\* C27: with a search term, get_posts keeps exactly the posts whose title or body contains
\* the term as a substring ignoring case, in their snapshot order; with no search term or
\* an empty one it keeps every post; and total counts the filtered list, not the snapshot.
OccursIn(term, text) ==
    \E k \in 1..(Len(text) - Len(term) + 1) :
        \A m \in 1..Len(term) : LowerChar(text[k + m - 1]) = LowerChar(term[m])
Wanted(post, search) ==
    \/ ~search.given
    \/ search.text = <<>>
    \/ OccursIn(search.text, post.title)
    \/ OccursIn(search.text, post.body)
WantedAt(list, search) == {k \in 1..Len(list) : Wanted(list[k], search)}
\* the wanted posts of a list, in the list's order
WantedOf(list, search) ==
    LET at == WantedAt(list, search)
        Nth(n) == CHOOSE k \in at : Cardinality({j \in at : j < k}) = n - 1
    IN  [n \in 1..Cardinality(at) |-> list[Nth(n)]]
C27_SearchFilter ==
    Listed =>
        LET wanted == WantedOf(SnapshotUsed, plast.args.search)
            page == plast.args.page
            per_page == plast.args.per_page
        IN  /\ FilteredUsed = wanted
            /\ plast.resp.body.total = Len(wanted)
            /\ plast.resp.body.posts = Between(wanted, (page - 1) * per_page, page * per_page)
            /\ (~plast.args.search.given \/ plast.args.search.text = <<>>) =>
                   plast.resp.body.total = Len(SnapshotUsed)

\* a mixed-case term has matched one post by its title and one by its body, and left out
\* a third
C27_Witness ==
    /\ Listed
    /\ plast.args.search = Search(TermAb)
    /\ plast.args.page = 1
    /\ plast.resp.body.total = 2
    /\ Len(SnapshotUsed) = 3
    /\ plast.resp.body.posts # <<>>
    /\ \E k \in 1..Len(SnapshotUsed) :
        /\ ~OccursIn(TermAb, SnapshotUsed[k].title)
        /\ k \in WantedAt(SnapshotUsed, plast.args.search)

\* ------------------------------------------------------ claims: session lifecycle
\* C28: logout revokes nothing on the server: a token string issued by login is still
\* accepted by get_token and get_user when it is presented again after logout, for as long
\* as it is unexpired and its user exists and is active; only the client's cookie is removed.
Holder(token) == UuidOf(token.payload.user_id)
Live(token) ==
    /\ now < token.payload.exp
    /\ Holder(token) \in DOMAIN users
    /\ users[Holder(token)].is_active
C28_LogoutRevokesNothing ==
    /\ [](last.op = "logout" =>
            \A token \in issued :
                Live(token) =>
                    /\ get_token(token, now).ok
                    /\ get_token(token, now).body.user_id = Holder(token)
                    /\ get_user(token, now, users, TRUE).ok
                    /\ get_user(token, now, users, TRUE).body = users[Holder(token)])
    /\ [][LogoutAnswered =>
            /\ last'.resp.cookie = CookieDeleted
            /\ issued' = issued
            /\ \A token \in issued :
                /\ get_token(token, now') = get_token(token, now)
                /\ get_user(token, now', users', TRUE) = get_user(token, now, users, TRUE)]_vars

\* logout has been answered, some time after a login whose token is still live
C28_Witness ==
    /\ last.op = "logout"
    /\ now > 0
    /\ \E token \in issued :
        /\ Live(token)
        /\ token.payload.exp = now + 1
        /\ get_user(token, now, users, TRUE).ok

\* C29: registration always creates the user with role USER and active flag true, and no
\* sequence of public operations (register, login, logout, gate checks, deactivate) changes
\* the role of an existing user or sets an inactive user back to active.
C29_RoleAndFlagStable ==
    [][/\ \A id \in DOMAIN users :
            /\ id \in DOMAIN users'
            /\ users'[id].role = users[id].role
            /\ ~users[id].is_active => ~users'[id].is_active
       /\ \A id \in DOMAIN users' \ DOMAIN users :
            last'.op = "register" =>
                /\ last'.resp.ok
                /\ last'.resp.body = users'[id]
                /\ users'[id].role = USER
                /\ users'[id].is_active]_vars

\* a registration has just created an active ordinary user next to a deactivated
\* administrator
C29_Witness ==
    /\ last.op = "register"
    /\ last.resp.ok
    /\ last.resp.body.id \in DOMAIN users
    /\ users[last.resp.body.id].role = USER
    /\ users[last.resp.body.id].is_active
    /\ \E id \in DOMAIN users : users[id].role = ADMIN /\ ~users[id].is_active

\* C30: for a fixed snapshot, search term and per_page >= 1, the pages
\* 1..ceil(total/per_page) returned by get_posts partition the filtered list: concatenated
\* in page order they equal it exactly, each page has at most per_page posts, every page
\* beyond the last is empty, and has_next is true exactly when the following page is
\* non-empty.
PageOf(data, search, per_page, p) == get_posts_response(data, Args(p, per_page, search)).body
RECURSIVE PagesUpTo(_, _, _, _)
PagesUpTo(data, search, per_page, n) ==
    IF n = 0
    THEN <<>>
    ELSE PagesUpTo(data, search, per_page, n - 1) \o PageOf(data, search, per_page, n).posts
C30_PagesPartition ==
    Listed =>
        LET data == SnapshotUsed
            search == plast.args.search
            per_page == plast.args.per_page
            wanted == WantedOf(data, search)
            last_page == CeilOf(Len(wanted), per_page)
        IN  /\ PagesUpTo(data, search, per_page, last_page) = wanted
            /\ \A p \in 1..last_page :
                /\ Len(PageOf(data, search, per_page, p).posts) <= per_page
                /\ PageOf(data, search, per_page, p).posts # <<>>
            /\ \A p \in (last_page + 1)..(last_page + 2) :
                PageOf(data, search, per_page, p).posts = <<>>
            /\ \A p \in 1..(last_page + 2) :
                PageOf(data, search, per_page, p).has_next
                    = (PageOf(data, search, per_page, p + 1).posts # <<>>)

\* the last of three one-post pages of an unfiltered snapshot has been served
C30_Witness ==
    /\ Listed
    /\ ~plast.args.search.given
    /\ plast.args.per_page = 1
    /\ plast.args.page = 3
    /\ plast.resp.body.total = 3
    /\ PagesUpTo(SnapshotUsed, plast.args.search, 1, 3) = SnapshotUsed
    /\ plast.resp.body.posts = <<SnapshotUsed[3]>>
    /\ ~plast.resp.body.has_next

====
